---- MODULE Spec2Model ----
(***************************************************************************)
(* A model of src/src/pyflame.cc: option parsing, the sampling loop of     *)
(* main (attach, read, record, deadline check, detach, sleep, attach),     *)
(* the two top-level exception handlers, and the two output routines       *)
(* PrintFrames and PrintFramesTS.                                          *)
(*                                                                         *)
(* The functions main calls but does not define (PtraceAttach,             *)
(* PtraceDetach, Namespace, ThreadStateAddr, FirstFrameAddr, GetStack,     *)
(* the system clock) are the environment: each call either returns one of  *)
(* a small set of values or throws.                                        *)
(***************************************************************************)
EXTENDS Integers, Sequences, FiniteSets, TLC

VARIABLES
  pc,           \* position of main
  argc,         \* 1 + number of argv elements getopt_long has consumed so far
  npos,         \* non-option argv elements (permuted to the end by getopt_long)
  lastArg,      \* argv[argc - 1] after permutation: the last positional
  badFlag,      \* history: getopt_long returned '?' at least once
  include_idle, include_ts, seconds, sample_rate,
  pid,
  call_stacks, idle,
  tstate_addr, interval, end, now,
  clock,        \* std::chrono::system_clock, in microseconds
  attached,     \* the target is stopped under ptrace by this process
  exc,          \* the exception in flight: "none", "PtraceException", "std::exception"
  thrower,      \* history: the call that threw it
  stdout, stderr, exit_code,
  ticks,        \* history: ticks whose reads all succeeded (lines 176-190 passed)
  idleTicks,    \* history: ticks at which FirstFrameAddr returned 0
  attachCalls,  \* history: calls of PtraceAttach
  reads,        \* history: target-memory reads not yet followed by a PtraceDetach
  everAttached, \* history: some PtraceAttach succeeded
  tstateCalls,  \* history: calls of ThreadStateAddr
  firstFrameArg \* history: the address passed to the last FirstFrameAddr

vars == <<pc, argc, npos, lastArg, badFlag, include_idle, include_ts, seconds,
          sample_rate, pid, call_stacks, idle, tstate_addr, interval, end, now,
          clock, attached, exc, thrower, stdout, stderr, exit_code, ticks,
          idleTicks, attachCalls, reads, everAttached, tstateCalls,
          firstFrameArg>>

----------------------------------------------------------------------------
(* Bounds *)

\* argv elements after argv[0]
MaxArgs == 3
\* sampling ticks explored in one run
MaxTicks == 3
\* extra microseconds the clock may gain across one sleep_for
Jitter == 500
\* snapshots handed to the output routines when they are checked on their own
MaxSnaps == 3

----------------------------------------------------------------------------
(* Numbers.  A double is held in tenths of a microsecond, so that the      *)
(* truncation of static_cast<long>(x * 1000000) is visible.  A long is     *)
(* held as hi * 2^31 + lo with 0 <= lo < 2^31.                             *)

TenthsPerMicro == 10
DefaultSeconds == 10000000
DefaultSampleRate == 10000

\* static_cast<long>(x * 1000000): truncation toward zero
ToMicros(x) == IF x >= 0 THEN x \div TenthsPerMicro
               ELSE -((-x) \div TenthsPerMicro)

PidTMax == [hi |-> 0, lo |-> 2147483647]
PidTMin == [hi |-> -1, lo |-> 0]
LongGT(a, b) == a.hi > b.hi \/ (a.hi = b.hi /\ a.lo > b.lo)
LongLT(a, b) == LongGT(b, a)

\* values of optarg for -s and -r, and of the positional argument (after strtol)
SecondsArgs == {0, 25000}
RateArgs == {5, 10000}
PidArgs == { [hi |-> 0, lo |-> 1234],
             [hi |-> 1, lo |-> 0],
             [hi |-> -2, lo |-> 2147483647] }
NoArg == [hi |-> 0, lo |-> 0]

----------------------------------------------------------------------------
(* Output lines *)

Line(k, t, n) == [kind |-> k, text |-> t, n |-> n]

UsageLine == Line("usage", <<>>, 0)
VersionLine == Line("version", <<>>, 0)
ErrLine(what) == Line(what, <<>>, 0)

\* the reversed iteration of lines 70-75: every frame but the first of the
\* vector is followed by ";", the first of the vector is printed last
RECURSIVE Folded(_)
Folded(frames) ==
  IF Len(frames) = 1 THEN <<frames[1]>>
  ELSE <<frames[Len(frames)], ";">> \o Folded(SubSeq(frames, 1, Len(frames) - 1))

\* Trailed iterating with begin()/end() for rbegin()/rend()
RECURSIVE Trailed_Forward(_)
Trailed_Forward(frames) ==
  IF frames = <<>> THEN <<>>
  ELSE <<Head(frames), ";">> \o Trailed_Forward(Tail(frames))

\* the reversed iteration of lines 92-95: every frame is followed by ";"
RECURSIVE Trailed(_)
Trailed(frames) ==
  IF frames = <<>> THEN <<>>
  ELSE <<frames[Len(frames)], ";">> \o Trailed(SubSeq(frames, 1, Len(frames) - 1))

\* Buckets without the increment of line 61
Buckets_NoIncrement(stacks) ==
  [k \in {stacks[i].frames : i \in DOMAIN stacks} |-> 1]

\* lines 55-63: the number of call stacks with each frame sequence
Buckets(stacks) ==
  [k \in {stacks[i].frames : i \in DOMAIN stacks} |->
     Cardinality({i \in DOMAIN stacks : stacks[i].frames = k})]

\* the orders in which an unordered_map may enumerate its keys
Orders(keys) ==
  {o \in [1..Cardinality(keys) -> keys] :
     \A i, j \in 1..Cardinality(keys) : i # j => o[i] # o[j]}

\* lines 65-76: one line per bucket, cut short at an empty key
RECURSIVE BucketLines(_, _)
BucketLines(order, buckets) ==
  IF order = <<>> \/ Head(order) = <<>> THEN <<>>
  ELSE <<Line("bucket", Folded(Head(order)), buckets[Head(order)])>>
       \o BucketLines(Tail(order), buckets)

IdleLine(n) == IF n # 0 THEN <<Line("(idle)", <<>>, n)>> ELSE <<>>

\* what PrintFrames writes to standard output when the map enumerates in `order`
PrintFrames(stacks, idl, order) ==
  IdleLine(idl) \o BucketLines(order, Buckets(stacks))

\* what PrintFrames writes to standard error
PrintFramesErr(order) ==
  IF \E i \in DOMAIN order : order[i] = <<>> THEN <<ErrLine("fatal error")>> ELSE <<>>

\* what PrintFramesTS writes to standard output
RECURSIVE PrintFramesTS(_)
PrintFramesTS(stacks) ==
  IF stacks = <<>> THEN <<>>
  ELSE <<Line("ts", <<>>, Head(stacks).ts)>>
       \o (IF Head(stacks).frames = <<>>
           THEN <<Line("(idle)", <<>>, 0)>>
           ELSE <<Line("stack", Trailed(Head(stacks).frames), 0)>>)
       \o PrintFramesTS(Tail(stacks))

----------------------------------------------------------------------------
(* The environment *)

\* the frame sequences GetStack may return, leaf first
StackValues == { <<"f">>, <<"g", "f">>, <<"f", "g">> }
\* the address ThreadStateAddr returns
TStateAddr == 4096

----------------------------------------------------------------------------
Init ==
  /\ pc = "getopt"
  /\ argc = 1
  /\ npos = 0
  /\ lastArg = NoArg
  /\ badFlag = FALSE
  /\ include_idle = TRUE
  /\ include_ts = FALSE
  /\ seconds = DefaultSeconds
  /\ sample_rate = DefaultSampleRate
  /\ pid = NoArg
  /\ call_stacks = <<>>
  /\ idle = 0
  /\ tstate_addr = 0
  /\ interval = 0
  /\ end = 0
  /\ now = 0
  /\ clock = 0
  /\ attached = FALSE
  /\ exc = "none"
  /\ thrower = "none"
  /\ stdout = <<>>
  /\ stderr = <<>>
  /\ exit_code = -1
  /\ ticks = 0
  /\ idleTicks = 0
  /\ attachCalls = 0
  /\ reads = 0
  /\ everAttached = FALSE
  /\ tstateCalls = 0
  /\ firstFrameArg = 0

argsVars == <<argc, npos, lastArg, badFlag>>
optVars == <<include_idle, include_ts, seconds, sample_rate>>
loopVars == <<call_stacks, idle, tstate_addr, interval, end, now, clock>>
traceVars == <<attached, attachCalls, reads, everAttached>>
excVars == <<exc, thrower>>
outVars == <<stdout, stderr, exit_code>>
tickVars == <<ticks, idleTicks>>
addrVars == <<tstateCalls, firstFrameArg>>

----------------------------------------------------------------------------
(* Option parsing, lines 106-154.  Each action is one call of getopt_long  *)
(* and the switch on its result.                                           *)

MoreArgs == pc = "getopt" /\ argc - 1 < MaxArgs

\* a non-option argv element: getopt_long moves it behind the options
GetoptPositional ==
  /\ MoreArgs
  /\ \E a \in PidArgs :
       /\ argc' = argc + 1
       /\ npos' = npos + 1
       /\ lastArg' = a
  /\ UNCHANGED <<pc, badFlag, optVars, pid, loopVars, traceVars, excVars,
                 outVars, tickVars, addrVars>>

\* case 'h', lines 127-130
OptHelp ==
  /\ MoreArgs
  /\ argc' = argc + 1
  /\ stdout' = stdout \o <<UsageLine>>
  /\ exit_code' = 0
  /\ pc' = "done"
  /\ UNCHANGED <<npos, lastArg, badFlag, optVars, pid, loopVars, traceVars,
                 excVars, stderr, tickVars, addrVars>>

\* case 'v', lines 137-141
OptVersion ==
  /\ MoreArgs
  /\ argc' = argc + 1
  /\ stdout' = stdout \o <<VersionLine>>
  /\ exit_code' = 0
  /\ pc' = "done"
  /\ UNCHANGED <<npos, lastArg, badFlag, optVars, pid, loopVars, traceVars,
                 excVars, stderr, tickVars, addrVars>>

\* case 'r', lines 131-133
OptRate ==
  /\ MoreArgs
  /\ argc' = argc + 1
  /\ \E v \in RateArgs : sample_rate' = v
  /\ UNCHANGED <<pc, npos, lastArg, badFlag, include_idle, include_ts, seconds,
                 pid, loopVars, traceVars, excVars, outVars, tickVars, addrVars>>

\* case 's', lines 134-136
OptSeconds ==
  /\ MoreArgs
  /\ argc' = argc + 1
  /\ \E v \in SecondsArgs : seconds' = v
  /\ UNCHANGED <<pc, npos, lastArg, badFlag, include_idle, include_ts,
                 sample_rate, pid, loopVars, traceVars, excVars, outVars,
                 tickVars, addrVars>>

\* case 'x', lines 142-144
OptExcludeIdle ==
  /\ MoreArgs
  /\ argc' = argc + 1
  /\ include_idle' = FALSE
  /\ UNCHANGED <<pc, npos, lastArg, badFlag, include_ts, seconds, sample_rate,
                 pid, loopVars, traceVars, excVars, outVars, tickVars, addrVars>>

\* case 't', lines 145-147
OptTimestamp ==
  /\ MoreArgs
  /\ argc' = argc + 1
  /\ include_ts' = TRUE
  /\ UNCHANGED <<pc, npos, lastArg, badFlag, include_idle, seconds, sample_rate,
                 pid, loopVars, traceVars, excVars, outVars, tickVars, addrVars>>

\* case '?', lines 148-150: an unrecognised option; getopt_long has written
\* its message to standard error and the loop goes on
OptUnrecognised ==
  /\ MoreArgs
  /\ argc' = argc + 1
  /\ badFlag' = TRUE
  /\ stderr' = stderr \o <<ErrLine("getopt")>>
  /\ UNCHANGED <<pc, npos, lastArg, optVars, pid, loopVars, traceVars, excVars,
                 stdout, exit_code, tickVars, addrVars>>

\* c == -1, lines 117-119: argv is exhausted
GetoptEnd ==
  /\ pc = "getopt"
  /\ pc' = "check_args"
  /\ UNCHANGED <<argsVars, optVars, pid, loopVars, traceVars, excVars, outVars,
                 tickVars, addrVars>>

\* lines 155-164.  After the permutation optind = argc - npos.
CheckArgs ==
  /\ pc = "check_args"
  /\ LET optind == argc - npos IN
     IF optind # argc - 1
     THEN /\ stderr' = stderr \o <<UsageLine>>
          /\ exit_code' = 1
          /\ pc' = "done"
          /\ pid' = pid
     ELSE IF LongGT(lastArg, PidTMax) \/ LongLT(lastArg, PidTMin)
     THEN /\ stderr' = stderr \o <<ErrLine("PID out of range")>>
          /\ exit_code' = 1
          /\ pc' = "done"
          /\ pid' = lastArg
     ELSE /\ pid' = lastArg
          /\ pc' = "PtraceAttach"
          /\ UNCHANGED <<stderr, exit_code>>
  /\ UNCHANGED <<argsVars, optVars, loopVars, traceVars, excVars, stdout,
                 tickVars, addrVars>>

----------------------------------------------------------------------------
(* The try block, lines 167-202 *)

\* a call throws: control leaves the try block for the handlers of lines 203-219
Throw(kind, who) ==
  /\ exc' = kind
  /\ thrower' = who
  /\ pc' = "catch"

\* PtraceAttach(pid), lines 168 and 196: stops the target or throws
PtraceAttach(next) ==
  /\ attachCalls' = attachCalls + 1
  /\ \/ /\ attached' = TRUE
        /\ everAttached' = TRUE
        /\ pc' = next
        /\ UNCHANGED excVars
     \/ /\ Throw("PtraceException", "PtraceAttach")
        /\ UNCHANGED <<attached, everAttached>>
  /\ UNCHANGED reads

\* line 168
AttachFirst ==
  /\ pc = "PtraceAttach"
  /\ PtraceAttach("Namespace")
  /\ UNCHANGED <<argsVars, optVars, pid, loopVars, outVars, tickVars, addrVars>>

\* line 169: Namespace ns(pid)
NamespaceCtor ==
  /\ pc = "Namespace"
  /\ \/ /\ pc' = "ThreadStateAddr"
        /\ UNCHANGED excVars
     \/ Throw("std::exception", "Namespace")
  /\ UNCHANGED <<argsVars, optVars, pid, loopVars, traceVars, outVars, tickVars, addrVars>>

\* Startup with the deadline tested before the first tick (a while loop)
Startup_CheckFirst ==
  /\ pc = "ThreadStateAddr"
  /\ reads' = reads + 1
  /\ tstateCalls' = tstateCalls + 1
  /\ \/ /\ tstate_addr' = TStateAddr
        /\ interval' = ToMicros(sample_rate)
        /\ end' = clock + ToMicros(seconds)
        /\ pc' = "deadline"
        /\ UNCHANGED excVars
     \/ /\ \E k \in {"PtraceException", "std::exception"} : Throw(k, "ThreadStateAddr")
        /\ UNCHANGED <<tstate_addr, interval, end>>
  /\ UNCHANGED <<argsVars, optVars, pid, call_stacks, idle, now, clock, attached,
                 attachCalls, everAttached, outVars, tickVars, firstFrameArg>>

\* lines 170-174: the thread state address, the interval and the deadline
Startup ==
  /\ pc = "ThreadStateAddr"
  /\ reads' = reads + 1
  /\ tstateCalls' = tstateCalls + 1
  /\ \/ /\ tstate_addr' = TStateAddr
        /\ interval' = ToMicros(sample_rate)
        /\ end' = clock + ToMicros(seconds)
        /\ pc' = "FirstFrameAddr"
        /\ UNCHANGED excVars
     \/ /\ \E k \in {"PtraceException", "std::exception"} : Throw(k, "ThreadStateAddr")
        /\ UNCHANGED <<tstate_addr, interval, end>>
  /\ UNCHANGED <<argsVars, optVars, pid, call_stacks, idle, now, clock, attached,
                 attachCalls, everAttached, outVars, tickVars, firstFrameArg>>

\* RecordIdle without the test of include_idle at line 179
RecordIdle_NoIncludeTest(stacks, idl, t) ==
  [idle |-> idl + 1,
   call_stacks |-> IF include_ts
                   THEN Append(stacks, [ts |-> t, frames |-> <<>>])
                   ELSE stacks]

\* RecordIdle without the test of include_ts at line 183
RecordIdle_NoTsTest(stacks, idl, t) ==
  IF include_idle
  THEN [idle |-> idl + 1,
        call_stacks |-> Append(stacks, [ts |-> t, frames |-> <<>>])]
  ELSE [idle |-> idl, call_stacks |-> stacks]

\* lines 178-186: what a tick with a null frame address records
RecordIdle(stacks, idl, t) ==
  IF include_idle
  THEN [idle |-> idl + 1,
        call_stacks |-> IF include_ts
                        THEN Append(stacks, [ts |-> t, frames |-> <<>>])
                        ELSE stacks]
  ELSE [idle |-> idl, call_stacks |-> stacks]

\* lines 176-186: FirstFrameAddr, the clock, and the idle branch
FirstFrame ==
  /\ pc = "FirstFrameAddr"
  /\ ticks < MaxTicks
  /\ reads' = reads + 1
  /\ firstFrameArg' = tstate_addr
  /\ \/ /\ now' = clock            \* frame_addr == 0
        /\ LET r == RecordIdle(call_stacks, idle, clock) IN
             /\ idle' = r.idle
             /\ call_stacks' = r.call_stacks
        /\ ticks' = ticks + 1
        /\ idleTicks' = idleTicks + 1
        /\ pc' = "deadline"
        /\ UNCHANGED excVars
     \/ /\ now' = clock            \* frame_addr != 0
        /\ pc' = "GetStack"
        /\ UNCHANGED <<call_stacks, idle, tickVars, excVars>>
     \/ /\ \E k \in {"PtraceException", "std::exception"} : Throw(k, "FirstFrameAddr")
        /\ UNCHANGED <<now, call_stacks, idle, tickVars>>
  /\ UNCHANGED <<argsVars, optVars, pid, tstate_addr, interval, end, clock,
                 attached, attachCalls, everAttached, outVars, tstateCalls>>

\* lines 188-189: GetStack and the push_back
Walk ==
  /\ pc = "GetStack"
  /\ reads' = reads + 1
  /\ \/ /\ \E frames \in StackValues :
             call_stacks' = Append(call_stacks, [ts |-> now, frames |-> frames])
        /\ ticks' = ticks + 1
        /\ pc' = "deadline"
        /\ UNCHANGED <<idleTicks, excVars>>
     \/ /\ \E k \in {"PtraceException", "std::exception"} : Throw(k, "GetStack")
        /\ UNCHANGED <<call_stacks, tickVars>>
  /\ UNCHANGED <<argsVars, optVars, pid, idle, tstate_addr, interval, end, now,
                 clock, attached, attachCalls, everAttached, outVars, addrVars>>

\* Deadline with > for >= at line 191
Deadline_Late ==
  /\ pc = "deadline"
  /\ pc' = IF now + interval > end THEN "print" ELSE "PtraceDetach"
  /\ UNCHANGED <<argsVars, optVars, pid, loopVars, traceVars, excVars, outVars,
                 tickVars, addrVars>>

\* Deadline without the PtraceDetach of line 194 before the sleep
Deadline_NoDetach ==
  /\ pc = "deadline"
  /\ pc' = IF now + interval >= end THEN "print" ELSE "sleep_for"
  /\ UNCHANGED <<argsVars, optVars, pid, loopVars, traceVars, excVars, outVars,
                 tickVars, addrVars>>

\* lines 191-193
Deadline ==
  /\ pc = "deadline"
  /\ pc' = IF now + interval >= end THEN "print" ELSE "PtraceDetach"
  /\ UNCHANGED <<argsVars, optVars, pid, loopVars, traceVars, excVars, outVars,
                 tickVars, addrVars>>

\* line 194: PtraceDetach(pid) resumes the target or throws
PtraceDetach ==
  /\ pc = "PtraceDetach"
  /\ \/ /\ attached' = FALSE
        /\ reads' = 0
        /\ pc' = "sleep_for"
        /\ UNCHANGED excVars
     \/ /\ Throw("PtraceException", "PtraceDetach")
        /\ UNCHANGED <<attached, reads>>
  /\ UNCHANGED <<argsVars, optVars, pid, loopVars, attachCalls, everAttached,
                 outVars, tickVars, addrVars>>

\* line 195: the clock gains at least the interval
Sleep ==
  /\ pc = "sleep_for"
  /\ \E j \in {0, Jitter} : clock' = clock + interval + j
  /\ pc' = "PtraceAttachAgain"
  /\ UNCHANGED <<argsVars, optVars, pid, call_stacks, idle, tstate_addr,
                 interval, end, now, traceVars, excVars, outVars, tickVars, addrVars>>

\* AttachAgain followed by a second ThreadStateAddr
AttachAgain_Relocate ==
  /\ pc = "PtraceAttachAgain"
  /\ PtraceAttach("ThreadStateAddr")
  /\ UNCHANGED <<argsVars, optVars, pid, loopVars, outVars, tickVars, addrVars>>

\* line 196
AttachAgain ==
  /\ pc = "PtraceAttachAgain"
  /\ PtraceAttach("FirstFrameAddr")
  /\ UNCHANGED <<argsVars, optVars, pid, loopVars, outVars, tickVars, addrVars>>

\* lines 198-202 and 207-211: the output of the collected data
Emit ==
  IF ~include_ts
  THEN \E order \in Orders(DOMAIN Buckets(call_stacks)) :
         /\ stdout' = stdout \o PrintFrames(call_stacks, idle, order)
         /\ stderr' = stderr \o PrintFramesErr(order)
  ELSE /\ stdout' = stdout \o PrintFramesTS(call_stacks)
       /\ stderr' = stderr

\* lines 198-202, then return 0 at line 220
PrintResults ==
  /\ pc = "print"
  /\ Emit
  /\ exit_code' = 0
  /\ pc' = "done"
  /\ UNCHANGED <<argsVars, optVars, pid, loopVars, traceVars, excVars, tickVars, addrVars>>

\* CatchPtraceException with && for || at line 206
CatchPtraceException_And ==
  /\ pc = "catch"
  /\ exc = "PtraceException"
  /\ IF call_stacks # <<>> /\ idle # 0
     THEN /\ Emit
          /\ exit_code' = 0
     ELSE /\ stderr' = stderr \o <<ErrLine("what")>>
          /\ exit_code' = 1
          /\ stdout' = stdout
  /\ pc' = "done"
  /\ UNCHANGED <<argsVars, optVars, pid, loopVars, traceVars, excVars, tickVars, addrVars>>

\* CatchPtraceException without the else branch of lines 212-215
CatchPtraceException_NoElse ==
  /\ pc = "catch"
  /\ exc = "PtraceException"
  /\ Emit
  /\ exit_code' = 0
  /\ pc' = "done"
  /\ UNCHANGED <<argsVars, optVars, pid, loopVars, traceVars, excVars, tickVars, addrVars>>

\* lines 203-215: catch (const PtraceException &)
CatchPtraceException ==
  /\ pc = "catch"
  /\ exc = "PtraceException"
  /\ IF call_stacks # <<>> \/ idle # 0
     THEN /\ Emit
          /\ exit_code' = 0
     ELSE /\ stderr' = stderr \o <<ErrLine("what")>>
          /\ exit_code' = 1
          /\ stdout' = stdout
  /\ pc' = "done"
  /\ UNCHANGED <<argsVars, optVars, pid, loopVars, traceVars, excVars, tickVars, addrVars>>

\* CatchStdException emitting the collected data like the handler above it
CatchStdException_Emit ==
  /\ pc = "catch"
  /\ exc = "std::exception"
  /\ Emit
  /\ exit_code' = 1
  /\ pc' = "done"
  /\ UNCHANGED <<argsVars, optVars, pid, loopVars, traceVars, excVars, tickVars, addrVars>>

\* lines 216-219: catch (const std::exception &)
CatchStdException ==
  /\ pc = "catch"
  /\ exc = "std::exception"
  /\ stderr' = stderr \o <<ErrLine("what")>>
  /\ exit_code' = 1
  /\ stdout' = stdout
  /\ pc' = "done"
  /\ UNCHANGED <<argsVars, optVars, pid, loopVars, traceVars, excVars, tickVars, addrVars>>

Next ==
  \/ GetoptPositional \/ OptHelp \/ OptVersion \/ OptRate \/ OptSeconds
  \/ OptExcludeIdle \/ OptTimestamp \/ OptUnrecognised \/ GetoptEnd
  \/ CheckArgs
  \/ AttachFirst \/ NamespaceCtor \/ Startup
  \/ FirstFrame \/ Walk \/ Deadline \/ PtraceDetach \/ Sleep \/ AttachAgain
  \/ PrintResults \/ CatchPtraceException \/ CatchStdException

Spec == Init /\ [][Next]_vars

\* main is one sequential thread: it always takes its next step
FairSpec == Spec /\ WF_vars(Next)

----------------------------------------------------------------------------
(* The output routines on their own: main at line 198 after n error-free   *)
(* ticks, one snapshot per tick, for every choice of the n frame sequences *)

\* frame sequences of depth 1 to 3, leaf first
PrintStacks == { <<"f">>, <<"g", "f">>, <<"f", "g">>, <<"h", "g", "f">> }

\* main run as: pyflame [-t] -s <n ticks> <pid>, idle included
PrintInit ==
  \E n \in 1..MaxSnaps, ts \in BOOLEAN :
    \E fs \in [1..n -> IF ts THEN PrintStacks \cup {<<>>} ELSE PrintStacks] :
      LET idles == Cardinality({i \in 1..n : fs[i] = <<>>})
          step == ToMicros(DefaultSampleRate)
      IN
      /\ pc = "print"
      /\ argc = IF ts THEN 4 ELSE 3
      /\ npos = 1
      /\ lastArg = [hi |-> 0, lo |-> 1234]
      /\ badFlag = FALSE
      /\ include_idle = TRUE
      /\ include_ts = ts
      /\ seconds = n * DefaultSampleRate
      /\ sample_rate = DefaultSampleRate
      /\ pid = [hi |-> 0, lo |-> 1234]
      /\ call_stacks = [i \in 1..n |-> [ts |-> (i - 1) * step, frames |-> fs[i]]]
      /\ idle = idles
      /\ tstate_addr = TStateAddr
      /\ interval = step
      /\ end = n * step
      /\ now = (n - 1) * step
      /\ clock = (n - 1) * step
      /\ attached = TRUE
      /\ exc = "none"
      /\ thrower = "none"
      /\ stdout = <<>>
      /\ stderr = <<>>
      /\ exit_code = -1
      /\ ticks = n
      /\ idleTicks = idles
      /\ attachCalls = n
      /\ reads = IF fs[n] = <<>> THEN 1 ELSE 2
      /\ everAttached = TRUE
      /\ tstateCalls = 1
      /\ firstFrameArg = TStateAddr

PrintNext == PrintResults

PrintSpec == PrintInit /\ [][PrintNext]_vars

----------------------------------------------------------------------------
(* Properties *)

\* the reads of target memory: ThreadStateAddr, FirstFrameAddr, GetStack
AtRead == pc \in {"ThreadStateAddr", "FirstFrameAddr", "GetStack"}

\* main has returned out of or after the try block
Returned == pc = "done" /\ attachCalls > 0

\* main has reached one of the two output stages (lines 198-202, 207-211)
Emitted == Returned /\ exit_code = 0

\* help or version was asked for
HelpOrVersion == stdout # <<>> /\ stdout[1].kind \in {"usage", "version"}

\* the command line is a usage error
UsageError ==
  /\ pc # "getopt"
  /\ ~HelpOrVersion
  /\ \/ badFlag
     \/ npos # 1
     \/ LongGT(lastArg, PidTMax)
     \/ LongLT(lastArg, PidTMin)

\* what standard output may hold once the collected data has been emitted
PossibleOutputs ==
  IF ~include_ts
  THEN {PrintFrames(call_stacks, idle, o) : o \in Orders(DOMAIN Buckets(call_stacks))}
  ELSE {PrintFramesTS(call_stacks)}

IdleLines == {i \in DOMAIN stdout : stdout[i].kind = "(idle)"}
StampLines == {i \in DOMAIN stdout : stdout[i].kind = "ts"}
NonIdle == {i \in DOMAIN call_stacks : call_stacks[i].frames # <<>>}

\* C1: whenever main returns after a successful PtraceAttach, the target is
\* no longer held attached: a PtraceDetach has been performed on that path.
C1_DetachedAtReturn == (Returned /\ everAttached) => ~attached

\* C2: every read of target memory happens while the target is attached, the
\* target is detached during every sleep_for, and no read is left without a
\* PtraceDetach after it when main returns.
C2_ReadsInsideAttachWindow ==
  /\ AtRead => attached
  /\ pc = "sleep_for" => ~attached
  /\ Returned => reads = 0

\* C3: a PtraceException raised once call_stacks is non-empty ends the run
\* with exit code 0 and with standard output holding exactly what the normal
\* end of run prints for the same call_stacks and idle count.
C3_EarlyEndEmitsCollected ==
  (Returned /\ exc = "PtraceException" /\ call_stacks # <<>>)
    => (exit_code = 0 /\ stdout \in PossibleOutputs)

C3_Witness ==
  /\ Returned /\ exc = "PtraceException" /\ thrower = "PtraceAttach"
  /\ Len(call_stacks) >= 2 /\ stdout # <<>>

\* C4: an error raised before the first tick has completed (at the first
\* PtraceAttach, Namespace, ThreadStateAddr, or the first FirstFrameAddr or
\* GetStack) ends the run with exit code 1 and nothing on standard output.
C4_NoDataExitsOne ==
  (Returned /\ exc # "none" /\ ticks = 0) => (exit_code = 1 /\ stdout = <<>>)

C4_Witness ==
  /\ Returned /\ exc = "PtraceException" /\ thrower = "GetStack"
  /\ ticks = 0 /\ exit_code = 1

\* C5: a PtraceException raised after at least one successful tick (a sample
\* or an idle tick) ends the run with exit code 0, whatever the options.
C5_EarlyEndAfterTickExitsZero ==
  (Returned /\ exc = "PtraceException" /\ ticks > 0) => exit_code = 0

\* C6: an error raised by FirstFrameAddr or GetStack never leaves the
\* sampling loop: it does not reach the handlers of main.
C6_WalkErrorSkipsTick ==
  pc = "catch" => thrower \notin {"FirstFrameAddr", "GetStack"}

\* C7: in timestamp mode every successful tick has its own entry in
\* call_stacks, and the timestamps written are as many as the ticks.
C7_TimestampPerTick ==
  include_ts => /\ Len(call_stacks) = ticks
                /\ Emitted => Cardinality(StampLines) = ticks

\* C8: when the output is produced, the idle count plus the number of
\* non-idle snapshots equals the number of successful ticks.
C8_CountsAddUp == Emitted => idle + Cardinality(NonIdle) = ticks

\* C9: in folded mode, with idle excluded no "(idle)" line is written; with
\* idle included there is one exactly when some tick was idle, and its count
\* is the number of ticks at which FirstFrameAddr returned 0.
C9_IdleLine ==
  (Emitted /\ ~include_ts) =>
    /\ ~include_idle => IdleLines = {}
    /\ include_idle =>
         /\ (idleTicks > 0) <=> (IdleLines # {})
         /\ Cardinality(IdleLines) <= 1
         /\ \A i \in IdleLines : stdout[i].n = idleTicks

C9_Witness ==
  /\ Emitted /\ ~include_ts /\ include_idle
  /\ idleTicks >= 2 /\ call_stacks # <<>>

\* C10: a usage error makes the process exit with code 1 and no PtraceAttach
\* is ever attempted.
C10_UsageErrorNoAttach ==
  UsageError => /\ attachCalls = 0
                /\ pc = "done" => exit_code = 1

\* main is between the deadline check and the next tick (lines 194-196)
BetweenTicks == pc \in {"PtraceDetach", "sleep_for", "PtraceAttachAgain"}

\* the two safety parts of C11: the loop goes on only when now + interval is
\* strictly before end, and the ticks taken stay within duration / interval + 1
BoundedTicks ==
  /\ BetweenTicks => now + interval < end
  /\ (interval > 0 /\ ticks >= 2) => (ticks - 1) * interval < ToMicros(seconds)

\* a run whose duration needs no more than MaxTicks ticks
WithinMaxTicks == ToMicros(seconds) <= MaxTicks * interval

\* C11: a further tick is started only when the last tick's timestamp plus
\* the interval is strictly before the deadline; with a positive interval the
\* ticks taken never exceed duration / interval + 1, and the run, once in the
\* loop, reaches its end.
C11_LoopTerminates ==
  /\ []BoundedTicks
  /\ (pc = "FirstFrameAddr" /\ interval > 0 /\ WithinMaxTicks) ~> (pc = "done")

C11_Witness ==
  /\ Emitted /\ exc = "none" /\ interval > 0
  /\ ticks >= 3 /\ ticks * interval >= ToMicros(seconds)


\* C15: ThreadStateAddr is called once, no step after it changes tstate_addr,
\* and every FirstFrameAddr call is given that value.
C15_ThreadStateOnce ==
  /\ [](tstateCalls <= 1)
  /\ [](firstFrameArg # 0 => (tstateCalls = 1 /\ firstFrameArg = tstate_addr))
  /\ [][pc # "ThreadStateAddr" => tstate_addr' = tstate_addr]_vars

C15_Witness ==
  /\ ticks >= 2 /\ pc = "deadline"
  /\ tstateCalls = 1 /\ firstFrameArg = TStateAddr

\* C16: in folded mode call_stacks never holds an entry with no frames, and
\* PrintFrames never reports "fatal error".
C16_NoEmptyFoldedEntry ==
  ~include_ts =>
    /\ \A i \in DOMAIN call_stacks : call_stacks[i].frames # <<>>
    /\ \A i \in DOMAIN stderr : stderr[i].kind # "fatal error"

C16_Witness ==
  /\ Emitted /\ ~include_ts /\ include_idle
  /\ idleTicks > 0 /\ Len(call_stacks) >= 2

\* C17: PtraceAttach is called only while the target is not held, and
\* PtraceDetach only while it is held.
C17_AttachDetachAlternate ==
  /\ pc \in {"PtraceAttach", "PtraceAttachAgain"} => ~attached
  /\ pc = "PtraceDetach" => attached

C17_Witness == pc = "FirstFrameAddr" /\ attachCalls >= 3 /\ attached

\* C18: the deadline is never tested, and a run without error never ends,
\* before one tick has been taken.
C18_TickBeforeDeadline ==
  /\ pc \in {"deadline", "print"} => ticks >= 1
  /\ (Returned /\ exc = "none") => ticks >= 1

C18_Witness == Emitted /\ exc = "none" /\ seconds = 0 /\ ticks = 1

\* C19: standard output is written only by the step that ends the run, and a
\* run ended by a std::exception other than PtraceException writes nothing to
\* it and exits with code 1.
C19_OutputOnceAtEnd ==
  /\ pc # "done" => stdout = <<>>
  /\ (Returned /\ exc = "std::exception") => (stdout = <<>> /\ exit_code = 1)

C19_Witness ==
  /\ Returned /\ exc = "std::exception" /\ thrower = "GetStack"
  /\ call_stacks # <<>>


\* a sequence back to front
Reverse(q) == [i \in 1..Len(q) |-> q[Len(q) + 1 - i]]

\* the elements of a non-empty sequence with one ";" between neighbours
RECURSIVE Join(_)
Join(q) == IF Len(q) <= 1 THEN q ELSE <<Head(q), ";">> \o Join(Tail(q))

\* a leaf-first frame sequence written root first: fn;...;f1;f0
RootFirst(frames) == Join(Reverse(frames))

\* a written line without its separators
FramesOf(text) == SelectSeq(text, LAMBDA x : x # ";")

\* the snapshots with a given frame sequence
Occurrences(k) == {i \in DOMAIN call_stacks : call_stacks[i].frames = k}

BucketLineNos == {i \in DOMAIN stdout : stdout[i].kind = "bucket"}
StackLineNos == {i \in DOMAIN stdout : stdout[i].kind \in {"bucket", "stack"}}

\* call_stacks in the order given by a sequence of its indices
Permuted(order) == [i \in DOMAIN order |-> call_stacks[order[i]]]

C13_RootFirstNoTrailing ==
  Emitted =>
    \A i \in StackLineNos :
      \E j \in DOMAIN call_stacks :
        /\ call_stacks[j].frames # <<>>
        /\ stdout[i].text = RootFirst(call_stacks[j].frames)

====
